---- MODULE Spec2Model ----
(***************************************************************************)
(* Presence tracking and timeout-driven actions of src/Main.py.            *)
(*                                                                         *)
(* Threads: rfid_reader_thread (one), timeout_handler_thread (one), and    *)
(* one thread per spawned capture_image / display_qr call.  Shared state   *)
(* is the five module globals plus state_lock.                             *)
(*                                                                         *)
(* Time is counted in whole seconds and kept as clocks, not as absolute    *)
(* readings of time.time(): a timestamp is represented by its age (the     *)
(* value of time.time() - timestamp) and a sleep by the time it has left.  *)
(* The code compares an age with 5 and 6 only, so an age is counted up to  *)
(* ClockCap and no further.                                                *)
(*                                                                         *)
(* Scheduling.  The two polling loops may be delayed for any time: the     *)
(* 0.1 s sleeps that end them are shorter than one tick and do not         *)
(* constrain the next poll, and a thread waiting for state_lock may wait   *)
(* arbitrarily long.  A capture_image or display_qr thread that can run    *)
(* without the lock runs within the second; the time its device and file   *)
(* calls take on top of its time.sleep is chosen in 0..MaxOverrun.         *)
(***************************************************************************)
EXTENDS Integers, FiniteSets, Sequences, TLC

VARIABLES
    current_card,             \* Main.py:46
    last_removed_time,        \* Main.py:47, None or Some(age of the timestamp)
    last_removed_authorized,  \* Main.py:48
    image_captured,           \* Main.py:49
    qr_displayed,             \* Main.py:50
    state_lock,               \* Main.py:52, "free" or the holder
    display,                  \* what the OLED shows
    reader_pc,                \* position of rfid_reader_thread
    id,                       \* rfid_reader_thread's local id (last reading)
    reader_sleep,             \* time left of the sleep inside display_message
    timeout_pc,               \* position of timeout_handler_thread
    capture_tasks,            \* running capture_image threads
    qr_tasks,                 \* running display_qr threads
    \* history variables (not program state)
    episode,                  \* number of Present->Absent transitions so far
    removed_id,               \* card tracked just before the last transition
    episode_fate,             \* "none", "open", "cancelled", "ended"
    episode_age,              \* seconds since that transition, while the episode is open
    episode_captures,         \* capture actions started since the last transition
    episode_codes,            \* code-display actions started since the last transition
    captures_started,         \* capture actions started in the whole run
    qrs_started               \* code-display actions started in the whole run

vars == << current_card, last_removed_time, last_removed_authorized,
           image_captured, qr_displayed, state_lock, display, reader_pc, id,
           reader_sleep, timeout_pc, capture_tasks, qr_tasks, episode,
           removed_id, episode_fate, episode_age, episode_captures,
           episode_codes, captures_started, qrs_started >>

shared == << current_card, last_removed_time, last_removed_authorized,
             image_captured, qr_displayed >>

history == << episode, removed_id, episode_fate, episode_age,
              episode_captures, episode_codes, captures_started, qrs_started >>

----------------------------------------------------------------------------
(* Bounds and program constants *)

(* removals in one run; seconds a task's device and file calls may take *)
MaxEpisodes == 2
MaxOverrun == 1

AUTHORIZED_ID == "1047839255856"
OTHER_ID == "42"
Ids == {AUTHORIZED_ID, OTHER_ID}

CAPTURE_DELAY == 5
CODE_DELAY == 6
MESSAGE_HOLD == 2
WARMUP == 2
COOLDOWN == 10
VIEW_HOLD == 5

(* ages are counted up to the largest delay the code compares them with *)
ClockCap == CODE_DELAY

(* Python's None and a present value x, for current_card, last_removed_time, id *)
None == << >>
Some(x) == << x >>
Get(o) == o[1]

Readings == {None} \cup {Some(i) : i \in Ids}

----------------------------------------------------------------------------
Init ==
    /\ current_card = None
    /\ last_removed_time = None
    /\ last_removed_authorized = FALSE
    /\ image_captured = FALSE
    /\ qr_displayed = FALSE
    /\ state_lock = "free"
    /\ display = "blank"
    /\ reader_pc = "read"
    /\ id = None
    /\ reader_sleep = 0
    /\ timeout_pc = "lock"
    /\ capture_tasks = {}
    /\ qr_tasks = {}
    /\ episode = 0
    /\ removed_id = None
    /\ episode_fate = "none"
    /\ episode_age = 0
    /\ episode_captures = 0
    /\ episode_codes = 0
    /\ captures_started = 0
    /\ qrs_started = 0

(* one second passes: every age grows, every running sleep shortens *)
Older(age) == IF age < ClockCap THEN age + 1 ELSE age
Shorter(left) == IF left > 0 THEN left - 1 ELSE 0
Slept(t) == [t EXCEPT !.sleep = Shorter(t.sleep)]

(* a task thread that needs neither the lock nor more sleep *)
Runnable(t) ==
    \/ t.pc = "spawned"
    \/ t.pc \in {"warmup", "viewing"} /\ t.sleep = 0

Tick ==
    /\ \A t \in capture_tasks \cup qr_tasks : ~Runnable(t)
    /\ last_removed_time' = IF last_removed_time = None
                              THEN None
                              ELSE Some(Older(Get(last_removed_time)))
    /\ reader_sleep' = Shorter(reader_sleep)
    /\ capture_tasks' = {Slept(t) : t \in capture_tasks}
    /\ qr_tasks' = {Slept(t) : t \in qr_tasks}
    /\ episode_age' = IF episode_fate = "open" THEN Older(episode_age) ELSE 0
    /\ UNCHANGED << current_card, last_removed_authorized, image_captured,
                    qr_displayed, state_lock, display, reader_pc, id,
                    timeout_pc, episode, removed_id, episode_fate,
                    episode_captures, episode_codes, captures_started,
                    qrs_started >>

----------------------------------------------------------------------------
(* rfid_reader_thread *)

(* id, text = reader.read_no_block(); the card is taken away at most
   MaxEpisodes times in a run *)
R_Read(r) ==
    /\ reader_pc = "read"
    /\ (r = None /\ current_card # None) => episode < MaxEpisodes
    /\ id' = r
    /\ reader_pc' = "lock"
    /\ UNCHANGED << shared, state_lock, display, reader_sleep, timeout_pc,
                    capture_tasks, qr_tasks, history >>

(* reader.read_no_block() raises: nothing in the loop catches it *)
R_ReadFail ==
    /\ reader_pc = "read"
    /\ reader_pc' = "dead"
    /\ UNCHANGED << shared, state_lock, display, id, reader_sleep,
                    timeout_pc, capture_tasks, qr_tasks, history >>

(* with state_lock: *)
R_Acquire ==
    /\ reader_pc = "lock"
    /\ state_lock = "free"
    /\ state_lock' = "reader"
    /\ reader_pc' = "scan"
    /\ UNCHANGED << shared, display, id, reader_sleep, timeout_pc,
                    capture_tasks, qr_tasks, history >>

(* current_card = id *)
AdoptCard_OnlyWhenAbsent ==
    current_card' = IF current_card = None THEN id ELSE current_card

AdoptCard ==
    current_card' = id

(* last_removed_time = time.time(); last_removed_authorized = ...; current_card = None *)
RecordRemoval_KeepsCard ==
    /\ last_removed_time' = Some(0)
    /\ last_removed_authorized' = (current_card = Some(AUTHORIZED_ID))
    /\ current_card' = current_card

RecordRemoval ==
    /\ last_removed_time' = Some(0)
    /\ last_removed_authorized' = (current_card = Some(AUTHORIZED_ID))
    /\ current_card' = None

(* last_removed_time = None; image_captured = False; qr_displayed = False *)
ResetRemovalState_KeepsTime ==
    /\ last_removed_time' = last_removed_time
    /\ image_captured' = FALSE
    /\ qr_displayed' = FALSE

ResetRemovalState_KeepsFlags ==
    /\ last_removed_time' = None
    /\ image_captured' = image_captured
    /\ qr_displayed' = qr_displayed

ResetRemovalState ==
    /\ last_removed_time' = None
    /\ image_captured' = FALSE
    /\ qr_displayed' = FALSE

(* a card is read that differs from the tracked one: adopt it and enter
   display_message, which draws the text and sleeps, lock still held
   (the drawing itself is taken to succeed) *)
R_Arrival ==
    /\ reader_pc = "scan"
    /\ id # None
    /\ current_card # id
    /\ AdoptCard
    /\ display' = "message"
    /\ reader_sleep' = MESSAGE_HOLD
    /\ reader_pc' = "message"
    /\ episode_fate' = IF episode_fate = "open" THEN "cancelled" ELSE episode_fate
    /\ episode_age' = 0
    /\ UNCHANGED << last_removed_time, last_removed_authorized,
                    image_captured, qr_displayed, state_lock, id, timeout_pc,
                    capture_tasks, qr_tasks, episode, removed_id,
                    episode_captures, episode_codes, captures_started,
                    qrs_started >>

(* display_message returns after its sleep and clears the display; the
   removal state is reset and the with block releases the lock *)
R_MessageDone ==
    /\ reader_pc = "message"
    /\ reader_sleep = 0
    /\ display' = "blank"
    /\ ResetRemovalState
    /\ state_lock' = "free"
    /\ reader_sleep' = 0
    /\ reader_pc' = "read"
    /\ UNCHANGED << current_card, last_removed_authorized, id, timeout_pc,
                    capture_tasks, qr_tasks, history >>

(* elif current_card is not None: *)
CardTracked_Always == TRUE

CardTracked == current_card # None

(* no card is read and one was tracked: a removal episode opens *)
R_Removal ==
    /\ reader_pc = "scan"
    /\ id = None
    /\ CardTracked
    /\ RecordRemoval
    /\ state_lock' = "free"
    /\ reader_pc' = "read"
    /\ episode' = episode + 1
    /\ removed_id' = current_card
    /\ episode_fate' = "open"
    /\ episode_age' = 0
    /\ episode_captures' = 0
    /\ episode_codes' = 0
    /\ UNCHANGED << image_captured, qr_displayed, display, id, reader_sleep,
                    timeout_pc, capture_tasks, qr_tasks, captures_started,
                    qrs_started >>

R_NoTransition_KeepsLock ==
    /\ reader_pc = "scan"
    /\ \/ id # None /\ current_card = id
       \/ id = None /\ current_card = None
    /\ reader_pc' = "read"
    /\ UNCHANGED << shared, state_lock, display, id, reader_sleep, timeout_pc,
                    capture_tasks, qr_tasks, history >>

(* the reading equals the tracked card, or is absent with none tracked *)
R_NoTransition ==
    /\ reader_pc = "scan"
    /\ \/ id # None /\ current_card = id
       \/ id = None /\ current_card = None
    /\ state_lock' = "free"
    /\ reader_pc' = "read"
    /\ UNCHANGED << shared, display, id, reader_sleep, timeout_pc,
                    capture_tasks, qr_tasks, history >>

----------------------------------------------------------------------------
(* timeout_handler_thread *)

(* with state_lock: *)
T_Acquire ==
    /\ timeout_pc = "lock"
    /\ state_lock = "free"
    /\ state_lock' = "timeout"
    /\ timeout_pc' = "check"
    /\ UNCHANGED << shared, display, reader_pc, id, reader_sleep,
                    capture_tasks, qr_tasks, history >>

(* elapsed >= 5 and not image_captured *)
CaptureDue_IgnoresFlag(elapsed) ==
    elapsed >= CAPTURE_DELAY

CaptureDue_OneTickEarly(elapsed) ==
    elapsed >= CAPTURE_DELAY - 1 /\ ~image_captured

CaptureDue(elapsed) ==
    elapsed >= CAPTURE_DELAY /\ ~image_captured

(* last_removed_authorized and elapsed >= 6 and not qr_displayed *)
CodeDue_AnyCard(elapsed) ==
    elapsed >= CODE_DELAY /\ ~qr_displayed

CodeDue_Early(elapsed) ==
    /\ last_removed_authorized
    /\ elapsed >= CAPTURE_DELAY - 1
    /\ ~qr_displayed

CodeDue(elapsed) ==
    last_removed_authorized /\ elapsed >= CODE_DELAY /\ ~qr_displayed

NewCapture ==
    [pc |-> "spawned", sleep |-> 0, ep |-> episode]

NewQr ==
    [pc |-> "spawned", sleep |-> 0, ep |-> episode]

(* the body of the with block, then the release of the lock *)
T_Check ==
    /\ timeout_pc = "check"
    /\ LET open == last_removed_time # None
           elapsed == IF open THEN Get(last_removed_time) ELSE 0
           capture == open /\ CaptureDue(elapsed)
           code == open /\ CodeDue(elapsed)
       IN  /\ image_captured' = (image_captured \/ capture)
           /\ capture_tasks' = IF capture
                                 THEN capture_tasks \cup {NewCapture}
                                 ELSE capture_tasks
           /\ captures_started' = captures_started + (IF capture THEN 1 ELSE 0)
           /\ episode_captures' = episode_captures + (IF capture THEN 1 ELSE 0)
           /\ qr_displayed' = (qr_displayed \/ code)
           /\ qr_tasks' = IF code THEN qr_tasks \cup {NewQr} ELSE qr_tasks
           /\ qrs_started' = qrs_started + (IF code THEN 1 ELSE 0)
           /\ episode_codes' = episode_codes + (IF code THEN 1 ELSE 0)
    /\ state_lock' = "free"
    /\ timeout_pc' = "lock"
    /\ UNCHANGED << current_card, last_removed_time,
                    last_removed_authorized, display, reader_pc, id,
                    reader_sleep, episode, removed_id, episode_fate,
                    episode_age >>

----------------------------------------------------------------------------
(* capture_image, one thread per spawn *)

Moved(t, p, d) == [t EXCEPT !.pc = p, !.sleep = d]

(* picam2.start(); time.sleep(2); up to the return of capture_file and stop *)
C_Start(t) ==
    /\ t.pc = "spawned"
    /\ \E x \in 0..MaxOverrun :
          capture_tasks' = (capture_tasks \ {t}) \cup {Moved(t, "warmup", WARMUP + x)}
    /\ UNCHANGED << shared, state_lock, display, reader_pc, id,
                    reader_sleep, timeout_pc, qr_tasks, history >>

(* capture_file and stop have returned; time.sleep(10) *)
C_Shoot(t) ==
    /\ t.pc = "warmup"
    /\ t.sleep = 0
    /\ capture_tasks' = (capture_tasks \ {t}) \cup {Moved(t, "cooldown", COOLDOWN)}
    /\ UNCHANGED << shared, state_lock, display, reader_pc, id,
                    reader_sleep, timeout_pc, qr_tasks, history >>

(* picam2.start(), capture_file() or stop() raises: the thread ends there *)
C_Fail(t) ==
    /\ \/ t.pc = "spawned"
       \/ t.pc = "warmup" /\ t.sleep = 0
    /\ capture_tasks' = capture_tasks \ {t}
    /\ UNCHANGED << shared, state_lock, display, reader_pc, id,
                    reader_sleep, timeout_pc, qr_tasks, history >>

(* with state_lock: *)
C_Acquire(t) ==
    /\ t.pc = "cooldown"
    /\ t.sleep = 0
    /\ state_lock = "free"
    /\ state_lock' = "capture"
    /\ capture_tasks' = (capture_tasks \ {t}) \cup {Moved(t, "end", 0)}
    /\ UNCHANGED << shared, display, reader_pc, id, reader_sleep,
                    timeout_pc, qr_tasks, history >>

(* last_removed_time = None; image_captured = False; qr_displayed = False *)
EndEpisode_KeepsFlags ==
    /\ last_removed_time' = None
    /\ image_captured' = image_captured
    /\ qr_displayed' = qr_displayed

EndEpisode_KeepsTime ==
    /\ last_removed_time' = last_removed_time
    /\ image_captured' = FALSE
    /\ qr_displayed' = FALSE

EndEpisode ==
    /\ last_removed_time' = None
    /\ image_captured' = FALSE
    /\ qr_displayed' = FALSE

C_End(t) ==
    /\ t.pc = "end"
    /\ EndEpisode
    /\ state_lock' = "free"
    /\ capture_tasks' = capture_tasks \ {t}
    /\ episode_fate' = IF episode_fate = "open" THEN "ended" ELSE episode_fate
    /\ episode_age' = 0
    /\ UNCHANGED << current_card, last_removed_authorized, display,
                    reader_pc, id, reader_sleep, timeout_pc, qr_tasks, episode,
                    removed_id, episode_captures, episode_codes,
                    captures_started, qrs_started >>

----------------------------------------------------------------------------
(* display_qr, one thread per spawn *)

(* file read, generate_qr_code, display_qr_native up to its time.sleep(5) *)
Q_Show(t) ==
    /\ t.pc = "spawned"
    /\ display' = "qr"
    /\ \E x \in 0..MaxOverrun :
          qr_tasks' = (qr_tasks \ {t}) \cup {Moved(t, "viewing", VIEW_HOLD + x)}
    /\ UNCHANGED << shared, state_lock, reader_pc, id, reader_sleep,
                    timeout_pc, capture_tasks, history >>

(* device.clear() after the sleep *)
Q_Clear(t) ==
    /\ t.pc = "viewing"
    /\ t.sleep = 0
    /\ display' = "blank"
    /\ qr_tasks' = qr_tasks \ {t}
    /\ UNCHANGED << shared, state_lock, reader_pc, id, reader_sleep,
                    timeout_pc, capture_tasks, history >>

(* except Exception: device.clear() *)
Q_Fail_LeavesDisplay(t) ==
    /\ t.pc = "spawned"
    /\ qr_tasks' = qr_tasks \ {t}
    /\ UNCHANGED <<shared, state_lock, display, reader_pc, id, reader_sleep,
                   timeout_pc, capture_tasks, history>>

Q_Fail(t) ==
    /\ t.pc = "spawned"
    /\ display' = "blank"
    /\ qr_tasks' = qr_tasks \ {t}
    /\ UNCHANGED << shared, state_lock, reader_pc, id, reader_sleep,
                    timeout_pc, capture_tasks, history >>

----------------------------------------------------------------------------
Next ==
    \/ Tick
    \/ \E r \in Readings : R_Read(r)
    \/ R_ReadFail
    \/ R_Acquire
    \/ R_Arrival
    \/ R_MessageDone
    \/ R_Removal
    \/ R_NoTransition
    \/ T_Acquire
    \/ T_Check
    \/ \E t \in capture_tasks : C_Start(t)
    \/ \E t \in capture_tasks : C_Shoot(t)
    \/ \E t \in capture_tasks : C_Fail(t)
    \/ \E t \in capture_tasks : C_Acquire(t)
    \/ \E t \in capture_tasks : C_End(t)
    \/ \E t \in qr_tasks : Q_Show(t)
    \/ \E t \in qr_tasks : Q_Clear(t)
    \/ \E t \in qr_tasks : Q_Fail(t)

Spec == Init /\ [][Next]_vars

----------------------------------------------------------------------------
(* Fair scheduling.  Every thread that can take a step eventually takes it
   (time included); a thread blocked in state_lock.acquire() is woken on a
   release and the loops sleep 0.1 s between two acquisitions, so a waiter
   that finds the lock free again and again eventually gets it (strong
   fairness on the acquisitions, per thread). *)
Fairness ==
    /\ WF_vars(Tick)
    /\ SF_vars(R_Acquire)
    /\ WF_vars(R_Arrival \/ R_MessageDone \/ R_Removal \/ R_NoTransition)
    /\ SF_vars(T_Acquire)
    /\ WF_vars(T_Check)
    /\ WF_vars(\E t \in capture_tasks : C_Start(t) \/ C_Shoot(t) \/ C_Fail(t))
    /\ \A e \in 1..MaxEpisodes :
          SF_vars(\E t \in capture_tasks : t.ep = e /\ C_Acquire(t))
    /\ WF_vars(\E t \in capture_tasks : C_End(t))
    /\ WF_vars(\E t \in qr_tasks : Q_Show(t) \/ Q_Clear(t) \/ Q_Fail(t))

FairSpec == Spec /\ Fairness

----------------------------------------------------------------------------
(* The single-removal scenario: one card is read, then taken away, and no
   card is read again.  The timeout loop polls every 0.1 s and nothing holds
   the lock for long once the card is gone, so an action that is due is
   started before the next second passes. *)

ScenarioRead(r) ==
    /\ (episode = 0 /\ current_card # None) => r \in {current_card, None}
    /\ episode >= 1 => r = None
    /\ R_Read(r)

ActionDue ==
    /\ last_removed_time # None
    /\ \/ CaptureDue(Get(last_removed_time))
       \/ CodeDue(Get(last_removed_time))

PromptTick ==
    /\ ~ActionDue
    /\ Tick

ScenarioNext ==
    \/ PromptTick
    \/ \E r \in Readings : ScenarioRead(r)
    \/ R_ReadFail
    \/ R_Acquire
    \/ R_Arrival
    \/ R_MessageDone
    \/ R_Removal
    \/ R_NoTransition
    \/ T_Acquire
    \/ T_Check
    \/ \E t \in capture_tasks : C_Start(t)
    \/ \E t \in capture_tasks : C_Shoot(t)
    \/ \E t \in capture_tasks : C_Fail(t)
    \/ \E t \in capture_tasks : C_Acquire(t)
    \/ \E t \in capture_tasks : C_End(t)
    \/ \E t \in qr_tasks : Q_Show(t)
    \/ \E t \in qr_tasks : Q_Clear(t)
    \/ \E t \in qr_tasks : Q_Fail(t)

ScenarioSpec == Init /\ [][ScenarioNext]_vars

----------------------------------------------------------------------------
(* Derived views of the state *)

EpisodeOpen == last_removed_time # None

Cleared == last_removed_time = None /\ ~image_captured /\ ~qr_displayed

(* operations that are drawing on, or holding, the display *)
DisplayUsers ==
    (IF reader_pc = "message" THEN 1 ELSE 0)
    + Cardinality({t \in qr_tasks : t.pc = "viewing"})

CaptureStarts == captures_started' > captures_started
CodeStarts == qrs_started' > qrs_started

----------------------------------------------------------------------------
(* C1: within one removal episode the timeout scheduler starts the capture
   action at most once, and over a whole run the number of capture actions
   started never exceeds the number of Present->Absent transitions. *)
C1_CaptureAtMostOncePerEpisode ==
    /\ episode_captures <= 1
    /\ captures_started <= episode

(* the scheduler polls again, past the delay, in an episode whose capture
   it has already started *)
C1_Witness ==
    /\ timeout_pc = "check"
    /\ EpisodeOpen
    /\ Get(last_removed_time) >= CAPTURE_DELAY
    /\ image_captured
    /\ episode_captures = 1

(* C2 (invariant I1): whenever state_lock is not held, a tracked card
   (current_card not None) implies last_removed_time is None. *)
C2_PresentImpliesNoRemovalEvent ==
    state_lock = "free" => (current_card # None => last_removed_time = None)

(* a card has arrived during an open episode and the reader has released
   the lock *)
C2_Witness ==
    /\ state_lock = "free"
    /\ current_card # None
    /\ episode_fate = "cancelled"

(* C3: the code-display action is started only in an episode whose removed
   card is AUTHORIZED_ID; an episode opened by removing any other card never
   has a code-display action started. *)
C3_CodeOnlyForAuthorized ==
    episode_codes > 0 => removed_id = Some(AUTHORIZED_ID)

(* the scheduler checks an episode opened by another card, past CODE_DELAY,
   capture already started *)
C3_Witness ==
    /\ timeout_pc = "check"
    /\ removed_id = Some(OTHER_ID)
    /\ EpisodeOpen
    /\ Get(last_removed_time) >= CODE_DELAY
    /\ episode_captures = 1

(* C4: no action fires early: a capture action is started only when at least
   CAPTURE_DELAY seconds have passed since the removal, a code-display action
   only when at least CODE_DELAY seconds have. *)
C4_NoEarlyFire ==
    [][ /\ CaptureStarts => (episode_fate = "open" /\ episode_age >= CAPTURE_DELAY)
        /\ CodeStarts => (episode_fate = "open" /\ episode_age >= CODE_DELAY) ]_vars

(* a capture thread just spawned by a poll at exactly CAPTURE_DELAY *)
C4_Witness ==
    /\ episode_age = CAPTURE_DELAY
    /\ \E t \in capture_tasks : t.pc = "spawned" /\ t.ep = episode

(* C5: after each reading is processed, current_card is the id of that
   reading, or None if the reading was absent. *)
C5_PresenceFollowsReading ==
    reader_pc = "read" => current_card = id

(* a card read while another episode's card was gone has been processed *)
C5_Witness ==
    /\ reader_pc = "read"
    /\ id = Some(OTHER_ID)
    /\ current_card = Some(OTHER_ID)
    /\ episode_fate = "cancelled"

(* C6: a card read while an episode is open clears last_removed_time and
   both flags, and no capture or code-display action is started for the
   cancelled episode: actions start only in an episode that is still open. *)
C6_ArrivalCancelsEpisode ==
    [][ /\ R_MessageDone => Cleared'
        /\ (CaptureStarts \/ CodeStarts) => episode_fate = "open" ]_vars

(* the scheduler polls after an episode was cancelled before its capture *)
C6_Witness ==
    /\ timeout_pc = "check"
    /\ episode_fate = "cancelled"
    /\ episode_captures = 0
    /\ Cleared

(* C7: every removal episode that is not cancelled by a card arrival has
   its capture action started.  Hence an episode whose capture is not yet
   due and not yet started stays open until a card arrives: nothing else
   may close it. *)
C7_EpisodeOpenUntilCaptureOrArrival ==
    [][ (episode_fate = "open" /\ episode_captures = 0
                               /\ episode_age < CAPTURE_DELAY)
        => episode_fate' \in {"open", "cancelled"} ]_vars

(* C8: a capture action that fails still ends the episode: when the failed
   capture thread terminates, last_removed_time is None and both flags are
   False. *)
C8_FailedCaptureEndsEpisode ==
    [][(\E t \in capture_tasks : C_Fail(t)) => Cleared']_vars

(* C9: state_lock is never held by a thread that is in a blocking
   operation (here: the reader inside display_message's sleep). *)
C9_NoBlockingUnderLock ==
    state_lock = "reader" => reader_pc # "message"

(* C10: at most one operation uses the display at a time. *)
C10_DisplayExclusive ==
    DisplayUsers <= 1

(* C11: one card read, then removed, no card read again.  The capture
   action is started exactly once; the code-display action exactly once if
   the card is AUTHORIZED_ID and never otherwise; the episode (last_removed_time
   and both flags) is cleared by the completion of the capture action and by
   nothing before it. *)
C11_SingleRemovalScenario ==
    [][ /\ captures_started' <= 1
        /\ qrs_started' <= (IF removed_id' = Some(AUTHORIZED_ID) THEN 1 ELSE 0)
        /\ (EpisodeOpen /\ ~EpisodeOpen') => \E t \in capture_tasks : C_End(t)
        /\ (\E t \in capture_tasks : t.pc = "end" /\ t \notin capture_tasks')
              => /\ Cleared'
                 /\ captures_started = 1
                 /\ qrs_started = (IF removed_id = Some(AUTHORIZED_ID) THEN 1 ELSE 0)
      ]_vars

(* the capture action of an authorized card's episode has completed *)
C11_Witness ==
    /\ episode = 1
    /\ episode_fate = "ended"
    /\ removed_id = Some(AUTHORIZED_ID)
    /\ captures_started = 1
    /\ qrs_started = 1
    /\ Cleared

(* C12: while one removal event stays current, each of image_captured and
   qr_displayed goes only from False to True, and at most once; a flag goes
   back to False only in a step that also clears last_removed_time. *)
C12_FlagsMonotonePerEpisode ==
    [][ /\ (image_captured /\ ~image_captured') => last_removed_time' = None
        /\ (qr_displayed /\ ~qr_displayed') => last_removed_time' = None
        /\ (~image_captured /\ image_captured')
              => /\ last_removed_time # None
                 /\ last_removed_time' = last_removed_time
                 /\ episode_captures = 0
        /\ (~qr_displayed /\ qr_displayed')
              => /\ last_removed_time # None
                 /\ last_removed_time' = last_removed_time
                 /\ episode_codes = 0
      ]_vars

(* both flags were set during the second episode and have been reset by the
   completion of its capture *)
C12_Witness ==
    /\ episode = 2
    /\ episode_fate = "ended"
    /\ episode_captures = 1
    /\ episode_codes = 1
    /\ Cleared

(* a failing code-display step: a task that has not drawn yet disappears *)
QrFails == \E t \in qr_tasks : t.pc = "spawned" /\ qr_tasks' = qr_tasks \ {t}

(* C13: a failure inside the code-display action is contained: the display
   is cleared, the reader and timeout loops and the lock are untouched, and
   current_card, last_removed_time, image_captured and qr_displayed are left
   as they were. *)
C13_CodeDisplayFailureContained ==
    [][ QrFails => /\ display' = "blank"
                   /\ UNCHANGED shared
                   /\ UNCHANGED <<state_lock, reader_pc, timeout_pc, capture_tasks>>
      ]_vars

(* the code-display of the open episode is gone although its capture, started
   no later, is still warming up: it ended by failing, not by its 5 s hold *)
C13_Witness ==
    /\ last_removed_time # None
    /\ qr_displayed
    /\ episode_codes = 1
    /\ qr_tasks = {}
    /\ display = "blank"
    /\ \E t \in capture_tasks : t.ep = episode /\ t.pc \in {"spawned", "warmup"}

(* C14: a failing read on a poll tick counts as an absent reading and never
   ends the presence-monitor loop: the loop is always at one of its steps. *)
C14_ReaderLoopSurvivesReadFailure ==
    reader_pc \in {"read", "lock", "scan", "message"}

(* C15: an open episode is closed only by a card arrival or by the completion
   of the capture started for that same episode; the completion of a capture
   started for an earlier episode never closes a later one. *)
C15_OnlyOwnCaptureEndsEpisode ==
    [][ (episode_fate = "open" /\ last_removed_time # None /\ last_removed_time' = None)
          => \E t \in capture_tasks :
                t.pc = "end" /\ t.ep = episode /\ t \notin capture_tasks'
      ]_vars

(* C16: in every state observable outside the lock, qr_displayed = True
   implies image_captured = True. *)
C16_CodeFlagImpliesCaptureFlag ==
    state_lock = "free" => (qr_displayed => image_captured)

(* both actions of an episode have been started *)
C16_Witness ==
    /\ state_lock = "free"
    /\ qr_displayed
    /\ image_captured
    /\ episode_codes = 1

(* a reading that causes no transition is being processed *)
NoTransitionReading ==
    /\ reader_pc = "scan"
    /\ \/ id = None /\ current_card = None
       \/ id # None /\ id = current_card

(* C17: a reading that causes no transition (absent while no card is
   tracked, or the id of the tracked card) leaves current_card,
   last_removed_time, last_removed_authorized, image_captured and
   qr_displayed unchanged; in particular repeated absent readings do not
   re-anchor the removal timestamp. *)
C17_NoTransitionIsNoOp ==
    [][ (NoTransitionReading /\ reader_pc' # "scan") => UNCHANGED shared ]_vars

(* an absent reading is processed in an episode that is already 1 s old *)
C17_Witness ==
    /\ NoTransitionReading
    /\ id = None
    /\ last_removed_time # None
    /\ Get(last_removed_time) >= 1
    /\ episode_fate = "open"

(* capture tasks between picam2.start() and picam2.stop() *)
CameraUsers == {t \in capture_tasks : t.pc = "warmup"}

(* C18: at most one capture action uses the imaging device at a time, and
   at most one capture task is in flight at a time, capture tasks started
   for different episodes included. *)
C18_OneCaptureInFlight ==
    /\ Cardinality(CameraUsers) <= 1
    /\ Cardinality(capture_tasks) <= 1

(* C19: whenever no episode is open (last_removed_time is None) both flags
   are False, in every state observable outside the lock; and a flag that is
   True in an open episode was set by a start in that same episode, so every
   episode begins with both flags False. *)
C19_NoEpisodeNoFlags ==
    /\ (state_lock = "free" /\ last_removed_time = None)
          => (~image_captured /\ ~qr_displayed)
    /\ (last_removed_time # None /\ image_captured) => episode_captures = 1
    /\ (last_removed_time # None /\ qr_displayed) => episode_codes = 1

(* a second episode has just opened with both flags False although both
   actions were started in the first *)
C19_Witness ==
    /\ state_lock = "free"
    /\ episode = 2
    /\ episode_fate = "open"
    /\ last_removed_time = Some(0)
    /\ ~image_captured
    /\ ~qr_displayed
    /\ captures_started >= 1
    /\ qrs_started >= 1

(* a capture task of episode e is at its final with state_lock: *)
CaptureWaits(e) ==
    \E t \in capture_tasks : t.ep = e /\ t.pc = "cooldown" /\ t.sleep = 0

CaptureHolds(e) ==
    \E t \in capture_tasks : t.ep = e /\ t.pc = "end"

(* C20: the system is deadlock-free with respect to state_lock: the lock
   is only ever taken when it is free (no thread acquires it while it is
   held, by itself or by another), every acquisition is eventually followed
   by a release, and under fair scheduling every thread waiting for the lock
   eventually obtains it. *)
C20_LockDeadlockFree ==
    /\ [][state_lock' # state_lock => (state_lock = "free" \/ state_lock' = "free")]_vars
    /\ (state_lock # "free") ~> (state_lock = "free")
    /\ (reader_pc = "lock") ~> (reader_pc = "scan")
    /\ (timeout_pc = "lock") ~> (timeout_pc = "check")
    /\ \A e \in 1..MaxEpisodes : CaptureWaits(e) ~> CaptureHolds(e)

(* the reader and the timeout loop both wait while a capture task holds the
   lock *)
C20_Witness ==
    /\ state_lock = "capture"
    /\ reader_pc = "lock"
    /\ timeout_pc = "lock"

====
